---- MODULE Spec2Model ----
(***************************************************************************)
(* Model of server.js: six REST handlers doing load / mutate / save on a   *)
(* single JSON document file (data/db.json) plus unlink of uploaded blobs  *)
(* (data/uploads).  Every `await` of a handler is one step, so overlapping *)
(* requests interleave exactly at readDb, fs.unlink and writeDb.           *)
(***************************************************************************)
EXTENDS Integers, Sequences, FiniteSets, TLC

\* ---------------------------------------------------------------- bounds
MaxReq     == 2   \* request slots that may be in flight together
MaxCreates == 2   \* valid create-client requests accepted in one run
MaxFiles   == 2   \* files stored by the upload middleware in one run
MaxBatch   == 2   \* files in one upload request
MaxOps     == 4   \* requests of a run in which requests may overlap

Slots == 1..MaxReq

\* ------------------------------------------------------------ JS values
Undefined == "undefined"          \* a body field that is absent
NaN       == -1                   \* result of parseInt on a non-number
Null      == -2                   \* what JSON.stringify writes for NaN
NoField   == <<"undefined">>      \* multipart field clientId absent

Names  == {Undefined, "", "Alice"}
Emails == {Undefined}
Phones == {Undefined}
IdTexts == {<<"1">>, <<"2">>, <<"3">>, <<"x">>, <<"2", "x">>}
ClientIdFields == {NoField, <<>>, <<"1">>, <<"2">>}
FileMetas == {[originalname |-> "a.jpg", size |-> 1]}
Times == {"T1"}

Digits == {"0", "1", "2", "3", "4", "5", "6", "7", "8", "9"}
DigitVal(c) == CASE c = "0" -> 0 [] c = "1" -> 1 [] c = "2" -> 2
                 [] c = "3" -> 3 [] c = "4" -> 4 [] c = "5" -> 5
                 [] c = "6" -> 6 [] c = "7" -> 7 [] c = "8" -> 8
                 [] OTHER -> 9

RECURSIVE ParseDigits(_, _, _)
ParseDigits(s, i, acc) ==
    IF i > Len(s) \/ s[i] \notin Digits THEN acc
    ELSE ParseDigits(s, i + 1, acc * 10 + DigitVal(s[i]))

\* parseInt(text): the value of the leading decimal digits, NaN if none
ParseInt(s) == IF s = <<>> \/ s[1] \notin Digits THEN NaN
               ELSE ParseDigits(s, 1, 0)

\* a === b on numbers: NaN equals nothing, itself included
StrictEq(a, b) == a = b /\ a # NaN /\ b # NaN

\* !name for the JSON body field, !clientId for the multipart field
NoName(name) == name = Undefined \/ name = ""
NoClientId(clientId) == clientId = NoField \/ clientId = <<>>

\* ------------------------------------------------------------- sequences
\* s.findIndex(x => x.id === id), 1-based; 0 stands for -1
FindIndex(s, id) ==
    IF \E i \in 1..Len(s) : StrictEq(s[i].id, id)
    THEN CHOOSE i \in 1..Len(s) : /\ StrictEq(s[i].id, id)
                                  /\ \A j \in 1..(i - 1) : ~StrictEq(s[j].id, id)
    ELSE 0

\* variant: splice(i, 0), which removes nothing
SpliceNothing(s, i) == s

\* Array.prototype.splice(index, 1)
Splice(s, i) == SubSeq(s, 1, i - 1) \o SubSeq(s, i + 1, Len(s))

Ids(s) == {s[i].id : i \in 1..Len(s)}

\* Math.max(...ids) of a non-empty array of numbers
MathMax(S) == CHOOSE m \in S : \A x \in S : x <= m

\* ------------------------------------------------------------- documents
EmptyDoc == [clients |-> <<>>, photos |-> <<>>]

\* JSON.stringify followed by JSON.parse: NaN is written as null
JsonNum(n) == IF n = NaN THEN Null ELSE n
JsonPhoto(p) == [p EXCEPT !.clientId = JsonNum(p.clientId)]
JsonPhotos(ps) == [i \in 1..Len(ps) |-> JsonPhoto(ps[i])]
Stringify(doc) == [clients |-> doc.clients, photos |-> JsonPhotos(doc.photos)]

\* `/uploads/${file.filename}` and path.basename(photo.url)
Url(filename) == <<"uploads", filename>>
Basename(url) == url[Len(url)]

\* ----------------------------------------------------------------- state
VARIABLES
    dbFile,    \* data/db.json: [exists, doc]
    uploads,   \* the file names present in data/uploads
    nextFile,  \* next unique suffix the upload middleware hands out
    req,       \* per slot: the handler in flight and its local variables
    last,      \* the response sent by the step just taken, if it sent one
    prev,      \* the latest response, kept while it is a successful one;
               \* see Respond
    maxIssued, \* largest id a 201 answer of create-client has returned
    created,   \* 201 answers of create-client so far
    onlyCreates, \* TRUE while every request of the run was a create-client
    arrived    \* requests received so far, counted up to MaxOps

vars == <<dbFile, uploads, nextFile, req, last, prev, maxIssued, created,
          onlyCreates, arrived>>

\* a slot: op and pc say where its handler is; id is the parsed :id or
\* clientId, arg the body (name, email, phone) or req.files, snap what readDb
\* returned, db the handler's variable db, pend the photos still to unlink,
\* made the new records; writes and unl log the writeDb and unlink calls
Idle == [op |-> "none", pc |-> "idle", id |-> NaN, arg |-> <<>>,
         snap |-> EmptyDoc, db |-> EmptyDoc, pend |-> <<>>, made |-> <<>>,
         writes |-> 0, unl |-> <<>>]

NoResponse == [op |-> "none", id |-> NaN, arg |-> <<>>, status |-> 0,
               body |-> <<>>, snap |-> EmptyDoc, made |-> <<>>,
               writes |-> 0, unl |-> <<>>]

\* op, id, doc: the operation, its id (the new id for create-client, the
\* clientId for upload) and the document it loaded; twice: the response before
\* it was a successful call of the same operation (toggle: on the same id;
\* create-client: that had loaded the same document; upload: the response
\* before it was a successful delete-client of the upload's clientId);
\* afterDelete: the response before it was a successful delete-photo; in
\* both cases beforeId and before are that earlier call's id and document;
\* gone: the files a delete-client unlinked, carried over to the upload that
\* follows it
NoPrev == [op |-> "none", id |-> NaN, doc |-> EmptyDoc, twice |-> FALSE,
           afterDelete |-> FALSE, beforeId |-> NaN, before |-> EmptyDoc,
           gone |-> {}]

Init ==
    /\ dbFile = [exists |-> FALSE, doc |-> EmptyDoc]
    /\ uploads = {}
    /\ nextFile = 1
    /\ req = [r \in Slots |-> Idle]
    /\ last = NoResponse
    /\ prev = NoPrev
    /\ maxIssued = 0
    /\ created = 0
    /\ onlyCreates = TRUE
    /\ arrived = 0

Quiescent == \A s \in Slots : req[s].pc = "idle"

\* readDb: the parsed file, or the default structure on ENOENT
ReadDb == IF dbFile.exists THEN dbFile.doc ELSE EmptyDoc

\* writeDb(data) succeeding
WriteDb(data) == dbFile' = [exists |-> TRUE, doc |-> Stringify(data)]

\* the slot a new request takes: the lowest one that is free
Free(r) == req[r].pc = "idle" /\ \A s \in 1..(r - 1) : req[s].pc # "idle"

\* a request enters slot r and waits for its first await
Arrive(r, op, arg, id) ==
    /\ Free(r)
    /\ req' = [req EXCEPT ![r] = [Idle EXCEPT !.op = op, !.pc = "read",
                                              !.arg = arg, !.id = id]]
    /\ onlyCreates' = (onlyCreates /\ op = "createClient")
    /\ arrived' = IF arrived < MaxOps THEN arrived + 1 ELSE arrived

\* a step that sends no response
Silent == last' = NoResponse /\ prev' = prev

\* a request comes in and waits: prev is kept for a call of the same operation
Waiting(op) == last' = NoResponse /\ prev' = IF prev.op = op THEN prev ELSE NoPrev

\* res.status(status).json(body): the handler of slot r ends
Respond(r, rq, status, body) ==
    /\ prev' = IF rq.op # "none" /\ status \in {200, 201}
               THEN LET twice ==
                          IF rq.op = "upload"
                          THEN prev.op = "deleteClient" /\ prev.id = ParseInt(rq.arg[1])
                          ELSE /\ rq.op \in {"list", "createClient", "toggle"}
                               /\ prev.op = rq.op
                               /\ rq.op = "toggle" => prev.id = rq.id
                               /\ rq.op = "createClient" => prev.doc = rq.snap
                        afterDelete == prev.op = "deletePhoto"
                    IN [op |-> rq.op,
                        id |-> IF rq.op = "createClient" THEN rq.made[1].id
                               ELSE IF rq.op = "upload" THEN ParseInt(rq.arg[1])
                               ELSE rq.id,
                        doc |-> rq.snap, twice |-> twice, afterDelete |-> afterDelete,
                        beforeId |-> IF twice \/ afterDelete THEN prev.id ELSE NaN,
                        before |-> IF twice \/ afterDelete THEN prev.doc ELSE EmptyDoc,
                        gone |-> IF rq.op = "deleteClient"
                                 THEN {rq.unl[i].file : i \in {j \in 1..Len(rq.unl) : rq.unl[j].ok}}
                                 ELSE IF rq.op = "upload" /\ twice THEN prev.gone
                                 ELSE {}]
               ELSE NoPrev
    /\ last' = [op |-> rq.op, id |-> rq.id, arg |-> rq.arg, status |-> status,
                body |-> body, snap |-> rq.snap, made |-> rq.made,
                writes |-> rq.writes, unl |-> rq.unl]
    /\ req' = [req EXCEPT ![r] = Idle]

\* ------------------------------------------------------- GET /api/data
ListArrive(r) ==
    /\ UNCHANGED <<dbFile, uploads, nextFile, maxIssued, created>> /\ Waiting("list")
    /\ Arrive(r, "list", <<>>, NaN)

\* variant: the default structure is written back when the file is absent
ListReadInit(r) ==
    /\ req[r].op = "list" /\ req[r].pc = "read"
    /\ dbFile' = [exists |-> TRUE, doc |-> ReadDb]
    /\ UNCHANGED <<uploads, nextFile, maxIssued, created, onlyCreates, arrived>>
    /\ Respond(r, [req[r] EXCEPT !.snap = ReadDb], 200, ReadDb)

ListRead(r) ==
    /\ req[r].op = "list" /\ req[r].pc = "read"
    /\ UNCHANGED <<dbFile, uploads, nextFile, maxIssued, created, onlyCreates, arrived>>
    /\ Respond(r, [req[r] EXCEPT !.snap = ReadDb], 200, ReadDb)

\* --------------------------------------------------- POST /api/clients
\* variant: the + 1 is forgotten
NewClientIdNoIncrement(db) ==
    IF Len(db.clients) > 0 THEN MathMax(Ids(db.clients)) ELSE 1

NewClientId(db) ==
    IF Len(db.clients) > 0 THEN MathMax(Ids(db.clients)) + 1 ELSE 1

CreateArrive(r, name, email, phone) ==
    /\ Free(r)
    /\ UNCHANGED <<dbFile, uploads, nextFile, maxIssued, created>>
    /\ IF NoName(name)
       THEN /\ Respond(r, [Idle EXCEPT !.op = "createClient",
                                       !.arg = <<name, email, phone>>],
                       400, "Client name is required")
            /\ onlyCreates' = onlyCreates
            /\ arrived' = IF arrived < MaxOps THEN arrived + 1 ELSE arrived
       ELSE /\ created < MaxCreates
            /\ Arrive(r, "createClient", <<name, email, phone>>, NaN)
            /\ Waiting("createClient")

CreateRead(r) ==
    /\ req[r].op = "createClient" /\ req[r].pc = "read"
    /\ LET db == ReadDb
           newClient == [id |-> NewClientId(db), name |-> req[r].arg[1],
                         email |-> req[r].arg[2], phone |-> req[r].arg[3]]
       IN req' = [req EXCEPT ![r].snap = db,
                             ![r].db = [db EXCEPT !.clients = Append(@, newClient)],
                             ![r].made = <<newClient>>,
                             ![r].pc = "write"]
    /\ UNCHANGED <<dbFile, uploads, nextFile, maxIssued, created, onlyCreates, arrived>> /\ Silent

\* variant: the new client is appended to what the file holds at save time
CreateWriteMerge(r) ==
    /\ req[r].op = "createClient" /\ req[r].pc = "write"
    /\ UNCHANGED <<uploads, nextFile, onlyCreates, arrived>>
    /\ \/ /\ WriteDb([ReadDb EXCEPT !.clients = Append(@, req[r].made[1])])
          /\ maxIssued' = IF req[r].made[1].id > maxIssued
                          THEN req[r].made[1].id ELSE maxIssued
          /\ created' = created + 1
          /\ Respond(r, [req[r] EXCEPT !.writes = @ + 1], 201, req[r].made[1])
       \/ /\ UNCHANGED <<dbFile, maxIssued, created>>
          /\ Respond(r, [req[r] EXCEPT !.writes = @ + 1], 500, "Error creating client")

CreateWrite(r) ==
    /\ req[r].op = "createClient" /\ req[r].pc = "write"
    /\ UNCHANGED <<uploads, nextFile, onlyCreates, arrived>>
    /\ \/ /\ WriteDb(req[r].db)
          /\ maxIssued' = IF req[r].made[1].id > maxIssued
                          THEN req[r].made[1].id ELSE maxIssued
          /\ created' = created + 1
          /\ Respond(r, [req[r] EXCEPT !.writes = @ + 1], 201, req[r].made[1])
       \/ /\ UNCHANGED <<dbFile, maxIssued, created>>
          /\ Respond(r, [req[r] EXCEPT !.writes = @ + 1], 500, "Error creating client")

\* --------------------------------------------- DELETE /api/clients/:id
DeleteClientArrive(r, text) ==
    /\ UNCHANGED <<dbFile, uploads, nextFile, maxIssued, created>> /\ Waiting("deleteClient")
    /\ Arrive(r, "deleteClient", <<>>, ParseInt(text))

\* db.photos.filter(p => p.clientId === clientId)
PhotosToDelete(photos, clientId) ==
    LET OfClient(p) == StrictEq(p.clientId, clientId)
    IN SelectSeq(photos, OfClient)

\* variant: the filter compares the photo's own id
RemainingPhotosById(photos, clientId) ==
    LET NotThatId(p) == ~StrictEq(p.id, clientId)
    IN SelectSeq(photos, NotThatId)

\* db.photos.filter(p => p.clientId !== clientId)
RemainingPhotos(photos, clientId) ==
    LET NotOfClient(p) == ~StrictEq(p.clientId, clientId)
    IN SelectSeq(photos, NotOfClient)

DeleteClientRead(r) ==
    /\ req[r].op = "deleteClient" /\ req[r].pc = "read"
    /\ UNCHANGED <<dbFile, uploads, nextFile, maxIssued, created, onlyCreates, arrived>>
    /\ LET db == ReadDb
           clientId == req[r].id
           clientIndex == FindIndex(db.clients, clientId)
           photosToDelete == PhotosToDelete(db.photos, clientId)
       IN IF clientIndex = 0
          THEN Respond(r, [req[r] EXCEPT !.snap = db], 404, "Client not found")
          ELSE /\ req' = [req EXCEPT
                            ![r].snap = db,
                            ![r].db = [db EXCEPT !.clients = Splice(@, clientIndex)],
                            ![r].pend = photosToDelete,
                            ![r].pc = "unlink"]
               /\ Silent

\* variant: no try / catch around the unlink, a failure reaches the outer catch
DeleteClientUnlinkThrows(r) ==
    /\ req[r].op = "deleteClient" /\ req[r].pc = "unlink" /\ req[r].pend # <<>>
    /\ UNCHANGED <<dbFile, nextFile, maxIssued, created, onlyCreates, arrived>>
    /\ LET f == Basename(Head(req[r].pend).url)
           tried(ok) == [req[r] EXCEPT !.pend = Tail(@),
                                        !.unl = Append(@, [file |-> f, ok |-> ok])]
       IN \E ioError \in BOOLEAN :
            IF f \in uploads /\ ~ioError
            THEN /\ uploads' = uploads \ {f}
                 /\ req' = [req EXCEPT ![r] = tried(TRUE)]
                 /\ Silent
            ELSE /\ uploads' = uploads
                 /\ Respond(r, tried(FALSE), 500, "Error deleting client")

\* one turn of the for loop: await fs.unlink(...) inside try / catch
DeleteClientUnlink(r) ==
    /\ req[r].op = "deleteClient" /\ req[r].pc = "unlink" /\ req[r].pend # <<>>
    /\ LET f == Basename(Head(req[r].pend).url)
       IN \E ioError \in BOOLEAN :
            LET ok == f \in uploads /\ ~ioError
            IN /\ uploads' = IF ok THEN uploads \ {f} ELSE uploads
               /\ req' = [req EXCEPT ![r].pend = Tail(@),
                                     ![r].unl = Append(@, [file |-> f, ok |-> ok])]
    /\ UNCHANGED <<dbFile, nextFile, maxIssued, created, onlyCreates, arrived>> /\ Silent

\* variant: the document is saved once after the client is removed and once
\* more after the photos are filtered, and the second save may fail
DeleteClientWriteTwice(r) ==
    /\ req[r].op = "deleteClient" /\ req[r].pc = "unlink" /\ req[r].pend = <<>>
    /\ UNCHANGED <<uploads, nextFile, maxIssued, created, onlyCreates, arrived>>
    /\ LET db == [req[r].db EXCEPT !.photos = RemainingPhotos(@, req[r].id)]
       IN \/ /\ WriteDb(db)
             /\ Respond(r, [req[r] EXCEPT !.writes = @ + 2, !.db = db], 200,
                        "Client and associated photos deleted")
          \/ /\ WriteDb(req[r].db)
             /\ Respond(r, [req[r] EXCEPT !.writes = @ + 2], 500, "Error deleting client")

\* after the loop: db.photos = db.photos.filter(...); await writeDb(db)
DeleteClientWrite(r) ==
    /\ req[r].op = "deleteClient" /\ req[r].pc = "unlink" /\ req[r].pend = <<>>
    /\ UNCHANGED <<uploads, nextFile, maxIssued, created, onlyCreates, arrived>>
    /\ LET db == [req[r].db EXCEPT !.photos = RemainingPhotos(@, req[r].id)]
       IN \/ /\ WriteDb(db)
             /\ Respond(r, [req[r] EXCEPT !.writes = @ + 1, !.db = db], 200,
                        "Client and associated photos deleted")
          \/ /\ UNCHANGED dbFile
             /\ Respond(r, [req[r] EXCEPT !.writes = @ + 1], 500, "Error deleting client")

\* ---------------------------------------------------- POST /api/photos
\* multer.diskStorage: every file of the request is on disk, under a fresh
\* name, before the handler runs
StoredFiles(files) ==
    [i \in 1..Len(files) |->
        [originalname |-> files[i].originalname, size |-> files[i].size,
         filename |-> nextFile + i - 1]]

UploadArrive(r, clientId, files) ==
    /\ Free(r)
    /\ nextFile + Len(files) - 1 <= MaxFiles
    /\ nextFile' = nextFile + Len(files)
    /\ uploads' = uploads \cup {nextFile + i - 1 : i \in 1..Len(files)}
    /\ UNCHANGED <<dbFile, maxIssued, created>>
    /\ IF NoClientId(clientId) \/ Len(files) = 0
       THEN /\ Respond(r, [Idle EXCEPT !.op = "upload",
                                       !.arg = <<clientId, StoredFiles(files)>>],
                       400, "Client ID and files are required")
            /\ onlyCreates' = FALSE
            /\ arrived' = IF arrived < MaxOps THEN arrived + 1 ELSE arrived
       ELSE /\ Arrive(r, "upload", <<clientId, StoredFiles(files)>>, NaN)
            /\ Waiting("upload")

\* variant: ids start at the maximum itself
NewPhotosFromMax(db, clientId, files, now) ==
    LET maxId == IF Len(db.photos) > 0 THEN MathMax(Ids(db.photos)) ELSE 0
    IN [i \in 1..Len(files) |->
          [id |-> maxId + (i - 1),
           clientId |-> ParseInt(clientId),
           name |-> files[i].originalname,
           url |-> Url(files[i].filename),
           size |-> files[i].size,
           uploaded |-> now,
           favorite |-> FALSE]]

NewPhotos(db, clientId, files, now) ==
    LET maxId == IF Len(db.photos) > 0 THEN MathMax(Ids(db.photos)) ELSE 0
    IN [i \in 1..Len(files) |->
          [id |-> maxId + (i - 1) + 1,
           clientId |-> ParseInt(clientId),
           name |-> files[i].originalname,
           url |-> Url(files[i].filename),
           size |-> files[i].size,
           uploaded |-> now,
           favorite |-> FALSE]]

\* variant: the handler looks the client up and answers 404 when it is missing
UploadReadChecked(r) ==
    /\ req[r].op = "upload" /\ req[r].pc = "read"
    /\ UNCHANGED <<dbFile, uploads, nextFile, maxIssued, created, onlyCreates, arrived>>
    /\ \E now \in Times :
         LET db == ReadDb
             newPhotos == NewPhotos(db, req[r].arg[1], req[r].arg[2], now)
         IN IF ParseInt(req[r].arg[1]) \in Ids(db.clients)
            THEN /\ req' = [req EXCEPT ![r].snap = db,
                                       ![r].db = [db EXCEPT !.photos = @ \o newPhotos],
                                       ![r].made = newPhotos,
                                       ![r].pc = "write"]
                 /\ Silent
            ELSE Respond(r, [req[r] EXCEPT !.snap = db], 404, "Client not found")

UploadRead(r) ==
    /\ req[r].op = "upload" /\ req[r].pc = "read"
    /\ \E now \in Times :
         LET db == ReadDb
             newPhotos == NewPhotos(db, req[r].arg[1], req[r].arg[2], now)
         IN req' = [req EXCEPT ![r].snap = db,
                               ![r].db = [db EXCEPT !.photos = @ \o newPhotos],
                               ![r].made = newPhotos,
                               ![r].pc = "write"]
    /\ UNCHANGED <<dbFile, uploads, nextFile, maxIssued, created, onlyCreates, arrived>> /\ Silent

\* variant: the new records are appended to the document as it is on disk now
UploadWriteMerge(r) ==
    /\ req[r].op = "upload" /\ req[r].pc = "write"
    /\ UNCHANGED <<uploads, nextFile, maxIssued, created, onlyCreates, arrived>>
    /\ \/ /\ WriteDb([ReadDb EXCEPT !.photos = @ \o req[r].made])
          /\ Respond(r, [req[r] EXCEPT !.writes = @ + 1], 201, JsonPhotos(req[r].made))
       \/ /\ UNCHANGED dbFile
          /\ Respond(r, [req[r] EXCEPT !.writes = @ + 1], 500, "Error uploading photos")

UploadWrite(r) ==
    /\ req[r].op = "upload" /\ req[r].pc = "write"
    /\ UNCHANGED <<uploads, nextFile, maxIssued, created, onlyCreates, arrived>>
    /\ \/ /\ WriteDb(req[r].db)
          /\ Respond(r, [req[r] EXCEPT !.writes = @ + 1], 201, JsonPhotos(req[r].made))
       \/ /\ UNCHANGED dbFile
          /\ Respond(r, [req[r] EXCEPT !.writes = @ + 1], 500, "Error uploading photos")

\* ---------------------------------------------- DELETE /api/photos/:id
DeletePhotoArrive(r, text) ==
    /\ UNCHANGED <<dbFile, uploads, nextFile, maxIssued, created>> /\ Waiting("deletePhoto")
    /\ Arrive(r, "deletePhoto", <<>>, ParseInt(text))

DeletePhotoRead(r) ==
    /\ req[r].op = "deletePhoto" /\ req[r].pc = "read"
    /\ UNCHANGED <<dbFile, uploads, nextFile, maxIssued, created, onlyCreates, arrived>>
    /\ LET db == ReadDb
           photoIndex == FindIndex(db.photos, req[r].id)
       IN IF photoIndex = 0
          THEN Respond(r, [req[r] EXCEPT !.snap = db], 404, "Photo not found")
          ELSE /\ req' = [req EXCEPT
                            ![r].snap = db,
                            ![r].db = [db EXCEPT !.photos = Splice(@, photoIndex)],
                            ![r].pend = <<db.photos[photoIndex]>>,
                            ![r].pc = "unlink"]
               /\ Silent

\* variant: the document is saved in the same breath as the file is unlinked
DeletePhotoUnlinkSaves(r) ==
    /\ req[r].op = "deletePhoto" /\ req[r].pc = "unlink"
    /\ LET f == Basename(Head(req[r].pend).url)
       IN \E ioError \in BOOLEAN :
            LET ok == f \in uploads /\ ~ioError
            IN /\ uploads' = IF ok THEN uploads \ {f} ELSE uploads
               /\ req' = [req EXCEPT ![r].pend = Tail(@),
                                     ![r].unl = Append(@, [file |-> f, ok |-> ok]),
                                     ![r].pc = "write"]
    /\ WriteDb(req[r].db)
    /\ UNCHANGED <<nextFile, maxIssued, created, onlyCreates, arrived>> /\ Silent

DeletePhotoUnlink(r) ==
    /\ req[r].op = "deletePhoto" /\ req[r].pc = "unlink"
    /\ LET f == Basename(Head(req[r].pend).url)
       IN \E ioError \in BOOLEAN :
            LET ok == f \in uploads /\ ~ioError
            IN /\ uploads' = IF ok THEN uploads \ {f} ELSE uploads
               /\ req' = [req EXCEPT ![r].pend = Tail(@),
                                     ![r].unl = Append(@, [file |-> f, ok |-> ok]),
                                     ![r].pc = "write"]
    /\ UNCHANGED <<dbFile, nextFile, maxIssued, created, onlyCreates, arrived>> /\ Silent

DeletePhotoWrite(r) ==
    /\ req[r].op = "deletePhoto" /\ req[r].pc = "write"
    /\ UNCHANGED <<uploads, nextFile, maxIssued, created, onlyCreates, arrived>>
    /\ \/ /\ WriteDb(req[r].db)
          /\ Respond(r, [req[r] EXCEPT !.writes = @ + 1], 200, "Photo deleted")
       \/ /\ UNCHANGED dbFile
          /\ Respond(r, [req[r] EXCEPT !.writes = @ + 1], 500, "Error deleting photo")

\* ------------------------------------------ PUT /api/photos/:id/favorite
ToggleArrive(r, text) ==
    /\ UNCHANGED <<dbFile, uploads, nextFile, maxIssued, created>> /\ Waiting("toggle")
    /\ Arrive(r, "toggle", <<>>, ParseInt(text))

\* variant: the flag is set instead of flipped
ToggleFavoriteSet(photo) == [photo EXCEPT !.favorite = TRUE]

\* variant: the flip also stamps the record
ToggleFavoriteStamp(photo) == [photo EXCEPT !.favorite = ~@, !.uploaded = "now"]

\* photo.favorite = !photo.favorite
ToggleFavorite(photo) == [photo EXCEPT !.favorite = ~@]

\* variant: no `if (!photo)`, the flip throws on undefined into the outer catch
ToggleReadNoCheck(r) ==
    /\ req[r].op = "toggle" /\ req[r].pc = "read"
    /\ UNCHANGED <<dbFile, uploads, nextFile, maxIssued, created, onlyCreates, arrived>>
    /\ LET db == ReadDb
           index == FindIndex(db.photos, req[r].id)
       IN IF index = 0
          THEN Respond(r, [req[r] EXCEPT !.snap = db], 500, "Error updating photo")
          ELSE /\ req' = [req EXCEPT
                            ![r].snap = db,
                            ![r].db = [db EXCEPT !.photos[index] = ToggleFavorite(@)],
                            ![r].made = <<ToggleFavorite(db.photos[index])>>,
                            ![r].pc = "write"]
               /\ Silent

ToggleRead(r) ==
    /\ req[r].op = "toggle" /\ req[r].pc = "read"
    /\ UNCHANGED <<dbFile, uploads, nextFile, maxIssued, created, onlyCreates, arrived>>
    /\ LET db == ReadDb
           index == FindIndex(db.photos, req[r].id)
       IN IF index = 0
          THEN Respond(r, [req[r] EXCEPT !.snap = db], 404, "Photo not found")
          ELSE /\ req' = [req EXCEPT
                            ![r].snap = db,
                            ![r].db = [db EXCEPT !.photos[index] = ToggleFavorite(@)],
                            ![r].made = <<ToggleFavorite(db.photos[index])>>,
                            ![r].pc = "write"]
               /\ Silent

ToggleWrite(r) ==
    /\ req[r].op = "toggle" /\ req[r].pc = "write"
    /\ UNCHANGED <<uploads, nextFile, maxIssued, created, onlyCreates, arrived>>
    /\ \/ /\ WriteDb(req[r].db)
          /\ Respond(r, [req[r] EXCEPT !.writes = @ + 1], 200, JsonPhoto(req[r].made[1]))
       \/ /\ UNCHANGED dbFile
          /\ Respond(r, [req[r] EXCEPT !.writes = @ + 1], 500, "Error updating photo")

\* -------------------------------------------------------- specifications
Batches == UNION {[1..n -> FileMetas] : n \in 0..MaxBatch}

Arrivals ==
    \E r \in Slots :
        \/ ListArrive(r)
        \/ \E name \in Names, email \in Emails, phone \in Phones :
               CreateArrive(r, name, email, phone)
        \/ \E text \in IdTexts : DeleteClientArrive(r, text)
        \/ \E clientId \in ClientIdFields, files \in Batches :
               UploadArrive(r, clientId, files)
        \/ \E text \in IdTexts : DeletePhotoArrive(r, text)
        \/ \E text \in IdTexts : ToggleArrive(r, text)

Steps ==
    \E r \in Slots :
        \/ ListRead(r)
        \/ CreateRead(r) \/ CreateWrite(r)
        \/ DeleteClientRead(r) \/ DeleteClientUnlink(r) \/ DeleteClientWrite(r)
        \/ UploadRead(r) \/ UploadWrite(r)
        \/ DeletePhotoRead(r) \/ DeletePhotoUnlink(r) \/ DeletePhotoWrite(r)
        \/ ToggleRead(r) \/ ToggleWrite(r)

\* requests may overlap; such runs are explored up to MaxOps requests
Next == (arrived < MaxOps /\ Arrivals) \/ Steps
Spec == Init /\ [][Next]_vars

\* a non-concurrent run: a request arrives only when none is in flight
SeqNext == (Quiescent /\ Arrivals) \/ Steps
SeqSpec == Init /\ [][SeqNext]_vars

\* ------------------------------------------------------------ properties
\* the document the file holds now, as readDb would return it
Doc == IF dbFile.exists THEN dbFile.doc ELSE EmptyDoc

Answered(op, status) == last.op = op /\ last.status = status

\* the largest id of a sequence of records, 0 when it is empty
TopId(s) == IF s = <<>> THEN 0
            ELSE CHOOSE m \in Ids(s) : \A x \in Ids(s) : x <= m

\* C1 (SeqSpec): a successful delete-client(C) removes C, and only C, from
\* clients and removes from photos exactly the photos whose clientId is C;
\* the other clients and photos stay, unchanged and in the same order.
CascadeCompleteness ==
    Answered("deleteClient", 200) =>
        LET C == last.id
            KeepClient(c) == c.id # C
            KeepPhoto(p) == p.clientId # C
        IN /\ Cardinality({i \in 1..Len(last.snap.clients) :
                              last.snap.clients[i].id = C}) = 1
           /\ dbFile.exists
           /\ dbFile.doc.clients = SelectSeq(last.snap.clients, KeepClient)
           /\ dbFile.doc.photos = SelectSeq(last.snap.photos, KeepPhoto)

CascadeWitness ==
    /\ Answered("deleteClient", 200)
    /\ Len(last.unl) >= 1
    /\ Len(Doc.photos) >= 1
    /\ Len(Doc.clients) >= 1

\* C2 (Spec): delete-client, delete-photo and toggle-favorite called with an
\* id that no record of the loaded document has answer 404, call neither
\* writeDb nor unlink, and leave the file and the upload directory as they are.
IdMissing(resp) ==
    IF resp.op = "deleteClient" THEN resp.id \notin Ids(resp.snap.clients)
    ELSE resp.id \notin Ids(resp.snap.photos)

MissingResource ==
    [][(last'.op \in {"deleteClient", "deletePhoto", "toggle"} /\ IdMissing(last'))
        => /\ last'.status = 404
           /\ last'.writes = 0
           /\ last'.unl = <<>>
           /\ dbFile' = dbFile
           /\ uploads' = uploads]_vars

MissingResourceWitness ==
    /\ Answered("deletePhoto", 404)
    /\ Len(last.snap.photos) >= 1
    /\ uploads # {}

\* C3 (SeqSpec): a successful create-client appends exactly one client, whose
\* id is 1 + the largest client id of the loaded document (1 when it has no
\* client); while the run consists of creations only, the k-th created client
\* gets id k.
ClientIdAssignment ==
    Answered("createClient", 201) =>
        LET old == last.snap.clients
            new == last.body
        IN /\ Doc.clients = Append(old, new)
           /\ Doc.photos = last.snap.photos
           /\ \A i \in 1..Len(old) : old[i].id < new.id
           /\ new.id = 1 \/ new.id - 1 \in Ids(old)
           /\ onlyCreates => new.id = created

ClientIdWitness ==
    /\ Answered("createClient", 201)
    /\ onlyCreates
    /\ created = 2

\* C4 as claimed (SeqSpec): every successful create-client returns 1 + the
\* largest id returned by an earlier create-client, whatever came in between.
IdMonotonicityClaimed ==
    [][(last'.op = "createClient" /\ last'.status = 201)
        => last'.body.id = maxIssued + 1]_vars

\* C4 amended (SeqSpec): a successful create-client returns 1 + the largest id
\* returned earlier as long as the client holding that id is still in the
\* document; once delete-client has removed that client, the next id is taken
\* from the clients that remain and is one that was handed out before.
IdMonotonicity ==
    [][(last'.op = "createClient" /\ last'.status = 201)
        => IF maxIssued = 0 \/ maxIssued \in Ids(last'.snap.clients)
           THEN last'.body.id = maxIssued + 1
           ELSE last'.body.id <= maxIssued]_vars

IdMonotonicityWitness ==
    /\ Answered("createClient", 201)
    /\ ~onlyCreates
    /\ last.body.id = 2
    /\ maxIssued = 2

\* the text of a one-digit integer, as a multipart field carries it
DigitChars == <<"0", "1", "2", "3", "4", "5", "6", "7", "8", "9">>
Decimal(k) == <<DigitChars[k + 1]>>

ToggleInvolution ==
    Answered("toggle", 200) =>
        /\ \E i \in 1..Len(last.snap.photos) :
              /\ last.snap.photos[i].id = last.id
              /\ last.body.id = last.id
              /\ last.body.favorite = ~last.snap.photos[i].favorite
        /\ prev.twice => Doc = prev.before

ToggleTwiceWitness ==
    /\ Answered("toggle", 200)
    /\ prev.twice
    /\ Len(Doc.photos) = 2

\* C7 (Spec): GET /api/data changes neither the document file nor the upload
\* directory, does not create the file when it is absent (it then returns
\* the default structure), returns what the file holds, and two list calls
\* with no write completed between them return the same content.
ListReadOnly ==
    [][/\ last'.op = "list" =>
            /\ last'.status = 200
            /\ last'.body = Doc
            /\ last'.writes = 0 /\ last'.unl = <<>>
            /\ dbFile' = dbFile /\ uploads' = uploads
            /\ prev'.twice => last'.body = prev.doc
       /\ \A r \in Slots : (req[r].pc = "idle" /\ req'[r].op = "list")
                             => dbFile' = dbFile /\ uploads' = uploads]_vars

ListTwiceWitness ==
    /\ last.op = "list"
    /\ prev.twice
    /\ Len(last.body.clients) >= 1

\* C8 (Spec): a failing unlink never ends a delete: delete-photo and
\* delete-client that found their record attempt the unlink of every photo
\* concerned, then call writeDb, and answer 200 exactly when that save
\* succeeded; the saved document then holds none of the records.
BlobFailureSwallowed ==
    (last.op \in {"deletePhoto", "deleteClient"} /\ last.status # 404) =>
        LET Mine(p) == IF last.op = "deleteClient" THEN p.clientId = last.id
                       ELSE p.id = last.id
            mine == SelectSeq(last.snap.photos, Mine)
        IN /\ [i \in 1..Len(last.unl) |-> last.unl[i].file]
                 = [i \in 1..Len(mine) |-> Basename(mine[i].url)]
           /\ last.writes = 1
           /\ last.status \in {200, 500}
           /\ last.status = 200 =>
                /\ dbFile.exists
                /\ \A i \in 1..Len(dbFile.doc.photos) : ~Mine(dbFile.doc.photos[i])
                /\ last.op = "deleteClient" => last.id \notin Ids(dbFile.doc.clients)

BlobFailureWitness ==
    /\ Answered("deleteClient", 200)
    /\ Len(last.unl) = 2
    /\ ~last.unl[1].ok

\* C9 (Spec): a request answered 400 has loaded and saved nothing, and the
\* document file and the upload directory are as they were before it.
ValidationNoMutation ==
    [][last'.status = 400
        => /\ last'.writes = 0
           /\ dbFile' = dbFile
           /\ uploads' = uploads]_vars

\* C10 (Spec): when two create-client requests that loaded the same document
\* both answer 201, they return the same id and the document saved last
\* holds only the later client next to the loaded ones.
LostUpdate ==
    (Answered("createClient", 201) /\ prev.twice) =>
        /\ last.body.id = prev.beforeId
        /\ last.snap = prev.before
        /\ Doc.clients = Append(prev.before.clients, last.body)
        /\ Len(Doc.clients) = Len(prev.before.clients) + 1

LostUpdateWitness ==
    /\ Answered("createClient", 201)
    /\ prev.twice
    /\ created = 2

\* the blob ownership rule: every file of the upload directory is named by
\* the url of exactly one photo record, and every record's file is there
Owned(doc, files) ==
    /\ \A f \in files :
          Cardinality({i \in 1..Len(doc.photos) :
                          Basename(doc.photos[i].url) = f}) = 1
    /\ \A i \in 1..Len(doc.photos) : Basename(doc.photos[i].url) \in files

\* the request that just answered met no failing save and no failing unlink
NoFailure(resp) ==
    /\ resp.status # 500
    /\ \A i \in 1..Len(resp.unl) : resp.unl[i].ok

\* the document and the upload directory as they were when the request that
\* just answered came in (non-concurrent runs)
DocBefore(resp) == IF resp.status = 400 THEN Doc ELSE resp.snap

FilesBefore(resp) ==
    (uploads \cup {resp.unl[i].file : i \in 1..Len(resp.unl)})
        \ (IF resp.op = "upload"
           THEN {resp.arg[2][i].filename : i \in 1..Len(resp.arg[2])}
           ELSE {})

\* C11 (SeqSpec): blob ownership holds at every quiescent point of a run
\* without failing save or unlink. Stated request by request: when the rule
\* holds as a request comes in and the request meets no failure, the rule
\* holds when it has answered.
BlobOwnership ==
    (last.op # "none" /\ NoFailure(last) /\ Owned(DocBefore(last), FilesBefore(last)))
        => Owned(Doc, uploads)

\* referential integrity: the clientId of every photo is the id of a client
Integral(doc) ==
    \A i \in 1..Len(doc.photos) : doc.photos[i].clientId \in Ids(doc.clients)

\* an upload whose clientId names no client of the document it loaded
StrayUpload(resp) ==
    /\ resp.op = "upload"
    /\ resp.status = 201
    /\ ParseInt(resp.arg[1]) \notin Ids(resp.snap.clients)

\* C12 (SeqSpec): every step keeps referential integrity except the save of
\* an upload that names no existing client, so from the empty document every
\* reachable document is integral as long as each upload names a client that
\* exists; a client leaves the document only through a successful
\* delete-client of its id, whose save leaves no photo referencing it.
RefIntegrity ==
    [][/\ (Integral(Doc) /\ ~StrayUpload(last')) => Integral(Doc')
       /\ \A c \in Ids(Doc.clients) \ Ids(Doc'.clients) :
             /\ last'.op = "deleteClient"
             /\ last'.status = 200
             /\ last'.id = c
             /\ \A i \in 1..Len(Doc'.photos) : Doc'.photos[i].clientId # c]_vars

RefIntegrityWitness ==
    /\ Answered("deleteClient", 200)
    /\ Integral(last.snap)
    /\ Len(last.snap.photos) = 2
    /\ Len(Doc.photos) = 1
    /\ Integral(Doc)

\* C13 (SeqSpec): an upload with at least one file whose clientId names no
\* client of the loaded document is not rejected: it calls writeDb and, unless
\* that save fails, answers 201 and appends its photo records, all carrying
\* that clientId, so the saved document holds photos that reference no client.
UploadUnchecked ==
    (last.op = "upload" /\ last.status # 400
        /\ ParseInt(last.arg[1]) \notin Ids(last.snap.clients)) =>
        /\ last.status \in {201, 500}
        /\ last.writes = 1
        /\ Len(last.made) = Len(last.arg[2])
        /\ Len(last.made) >= 1
        /\ \A i \in 1..Len(last.made) : last.made[i].clientId = ParseInt(last.arg[1])
        /\ last.status = 201 =>
              /\ last.body = JsonPhotos(last.made)
              /\ Doc.clients = last.snap.clients
              /\ Doc.photos = last.snap.photos \o last.made
              /\ ~Integral(Doc)

\* the single request of a run answers 201 and leaves a photo without client
UploadUncheckedWitness ==
    /\ Answered("upload", 201)
    /\ arrived = 1
    /\ last.snap = EmptyDoc
    /\ Len(Doc.photos) >= 1
    /\ Doc.clients = <<>>
    /\ ~Integral(Doc)

\* C14 (Spec): an upload for client C that was in flight together with a
\* delete-client(C) and answers 201 right after the delete answered 200 saves
\* the document it loaded plus its new photos of C. Loaded after the delete's
\* save, that document has no client C, and the result holds photos of C
\* without C; loaded before it (the document the delete loaded), the result
\* still holds C and C's old photos, whose files the delete has unlinked.
UploadDeleteRace ==
    (Answered("upload", 201) /\ prev.op = "upload" /\ prev.twice) =>
        LET C == prev.id
            del == prev.before
            up == last.snap
            old == PhotosToDelete(del.photos, C)
        IN /\ C \in Ids(del.clients)
           /\ Len(last.body) >= 1
           /\ \A i \in 1..Len(last.body) : last.body[i].clientId = C
           /\ Doc.clients = up.clients
           /\ Doc.photos = up.photos \o last.body
           /\ C \notin Ids(up.clients) => (C \notin Ids(Doc.clients) /\ ~Integral(Doc))
           /\ up = del =>
                 /\ C \in Ids(Doc.clients)
                 /\ \A i \in 1..Len(old) :
                       \E j \in 1..Len(Doc.photos) : Doc.photos[j] = old[i]
                 /\ \A f \in prev.gone :
                       /\ f \notin uploads
                       /\ \E j \in 1..Len(Doc.photos) :
                             Basename(Doc.photos[j].url) = f

\* both answered, and the document still holds C and an old photo of C whose
\* file the delete-client has unlinked
UploadDeleteRaceWitness ==
    /\ Answered("upload", 201)
    /\ prev.op = "upload" /\ prev.twice
    /\ last.snap = prev.before
    /\ prev.gone # {}
    /\ prev.id \in Ids(Doc.clients)

\* both answered, and the document holds photos of C but no client C
UploadDeleteRaceOrphans ==
    /\ Answered("upload", 201)
    /\ prev.op = "upload" /\ prev.twice
    /\ prev.id \notin Ids(Doc.clients)
    /\ \E j \in 1..Len(Doc.photos) : Doc.photos[j].clientId = prev.id

Mutating == {"createClient", "deleteClient", "upload", "deletePhoto", "toggle"}

\* the complete result of a mutating request, from the document it loaded
FullResult(resp) ==
    LET doc == resp.snap
    IN IF resp.op = "createClient"
       THEN [doc EXCEPT !.clients = Append(@, resp.made[1])]
       ELSE IF resp.op = "upload"
       THEN [doc EXCEPT !.photos = @ \o resp.made]
       ELSE IF resp.op = "deletePhoto"
       THEN [doc EXCEPT !.photos = Splice(@, FindIndex(doc.photos, resp.id))]
       ELSE IF resp.op = "deleteClient"
       THEN [clients |-> Splice(doc.clients, FindIndex(doc.clients, resp.id)),
             photos |-> RemainingPhotos(doc.photos, resp.id)]
       ELSE [doc EXCEPT !.photos[FindIndex(doc.photos, resp.id)].favorite = ~@]

\* C15 (Spec): a mutating request calls writeDb at most once, as its last
\* step. When that save fails the request answers 500 and the file is what
\* it was; when it succeeds the request answers 200 or 201 and the file holds
\* the complete result of the mutation. No other step changes the file, so no
\* partial result of a mutation is ever persisted.
SaveFailure ==
    [][/\ last'.status = 500 =>
             /\ last'.op \in Mutating
             /\ last'.writes = 1
             /\ dbFile' = dbFile
       /\ (last'.op \in Mutating /\ last'.writes >= 1) =>
             /\ last'.writes = 1
             /\ \/ last'.status = 500 /\ dbFile' = dbFile
                \/ /\ last'.status \in {200, 201}
                   /\ dbFile' = [exists |-> TRUE, doc |-> Stringify(FullResult(last'))]
       /\ dbFile' # dbFile =>
             (last'.op \in Mutating /\ last'.writes = 1 /\ last'.status \in {200, 201})]_vars

\* a delete-client whose save failed after it had unlinked a file: the answer
\* is 500 and the document is the one the request loaded
SaveFailureWitness ==
    /\ Answered("deleteClient", 500)
    /\ \E i \in 1..Len(last.unl) : last.unl[i].ok
    /\ dbFile.exists
    /\ Doc = last.snap

Deletes == {"deletePhoto", "deleteClient"}

\* a photo record of the document on disk names the file f
Recorded(f) == \E j \in 1..Len(Doc.photos) : Basename(Doc.photos[j].url) = f

\* the record of file f is on disk while the file itself is gone
Dangling(f) == Recorded(f) /\ f \notin uploads

\* C16 (SeqSpec): in delete-photo and delete-client every unlink attempt is a
\* step of a request that has loaded the document and not yet called writeDb,
\* it is for the file of a photo of the loaded document and leaves db.json
\* alone; the 200 answer comes with the request's one save. So from a
\* successful unlink until the save, and still after a save that failed, the
\* document on disk holds a photo record whose file is gone.
DeleteStepOrder ==
    /\ [][\A r \in Slots :
            Len(req'[r].unl) > Len(req[r].unl) =>
                /\ req[r].op \in Deletes
                /\ req[r].pc = "unlink"
                /\ req[r].writes = 0
                /\ req[r].pend # <<>>
                /\ \E j \in 1..Len(req[r].snap.photos) :
                      req[r].snap.photos[j] = Head(req[r].pend)
                /\ req'[r].unl = Append(req[r].unl, req'[r].unl[Len(req'[r].unl)])
                /\ req'[r].unl[Len(req'[r].unl)].file = Basename(Head(req[r].pend).url)
                /\ req'[r].op = req[r].op
                /\ req'[r].writes = 0
                /\ dbFile' = dbFile]_vars
    /\ [][uploads' # uploads /\ ~(uploads \subseteq uploads') =>
            \E r \in Slots : Len(req'[r].unl) > Len(req[r].unl)]_vars
    /\ [](last.op \in Deletes /\ last.status = 200 => last.writes = 1)
    /\ [](\A r \in Slots :
            req[r].op \in Deletes =>
                /\ req[r].writes = 0
                /\ \A i \in 1..Len(req[r].unl) :
                      req[r].unl[i].ok => Dangling(req[r].unl[i].file))
    /\ [](last.op \in Deletes /\ last.status = 500 =>
            \A i \in 1..Len(last.unl) :
                last.unl[i].ok => Dangling(last.unl[i].file))

\* a delete-photo unlinked the file, its save failed, and the record is
\* still in the document
DeleteStepOrderWitness ==
    /\ Answered("deletePhoto", 500)
    /\ Len(last.unl) = 1
    /\ last.unl[1].ok
    /\ Dangling(last.unl[1].file)

\* C17 (SeqSpec): a successful toggle-favorite on photo id p negates the
\* favorite flag of the photo with id p and changes nothing else: clients,
\* the number and order of photos, every other photo and every other field
\* of photo p are as loaded; no step of the request touches the upload
\* directory; the response is the photo as saved.
ToggleFrame ==
    /\ [](Answered("toggle", 200) =>
            LET old == last.snap.photos
                new == Doc.photos
                p == last.id
            IN /\ Doc.clients = last.snap.clients
               /\ Len(new) = Len(old)
               /\ Cardinality({i \in 1..Len(old) : old[i].id = p}) = 1
               /\ \A i \in 1..Len(old) :
                     IF old[i].id = p
                     THEN /\ new[i].favorite = ~old[i].favorite
                          /\ new[i].id = old[i].id
                          /\ new[i].clientId = old[i].clientId
                          /\ new[i].name = old[i].name
                          /\ new[i].url = old[i].url
                          /\ new[i].size = old[i].size
                          /\ new[i].uploaded = old[i].uploaded
                          /\ DOMAIN new[i] = DOMAIN old[i]
                          /\ last.body = new[i]
                     ELSE new[i] = old[i])
    /\ [][((\E r \in Slots : req[r].op = "toggle" \/ req'[r].op = "toggle")
             \/ last'.op = "toggle")
            => (uploads' = uploads /\ nextFile' = nextFile)]_vars

ToggleFrameWitness ==
    /\ Answered("toggle", 200)
    /\ Len(Doc.photos) = 2
    /\ Len(Doc.clients) >= 1
    /\ last.id = Doc.photos[2].id
    /\ uploads # {}

\* no two records of the sequence share an id
UniqueIds(s) == \A i, j \in 1..Len(s) : s[i].id = s[j].id => i = j

\* C18 (Spec): under every interleaving of overlapping requests, no two
\* clients of the document on disk share an id and no two photos share an id.
IdsUnique ==
    /\ UniqueIds(Doc.clients)
    /\ UniqueIds(Doc.photos)

\* two overlapping create-client requests were handed the same id, and the
\* document holds a single client with that id
IdsUniqueWitness ==
    /\ Answered("createClient", 201)
    /\ prev.twice
    /\ last.body.id = prev.beforeId
    /\ Len(Doc.clients) = 1
    /\ Doc.clients[1].id = prev.beforeId
    /\ Len(Doc.photos) = 1

\* the document holds a photo record with this url
HasUrl(doc, u) == \E j \in 1..Len(doc.photos) : doc.photos[j].url = u

\* the url of the photo that the delete-photo answered just before removed
DeletedUrl == prev.before.photos[FindIndex(prev.before.photos, prev.beforeId)].url

\* a request in flight when a delete-photo answered 200 has now saved
SavedAfterDelete ==
    /\ prev.afterDelete
    /\ last.op \in Mutating
    /\ last.status \in {200, 201}

DeletedRestored ==
    /\ SavedAfterDelete
    /\ last.op = "toggle"
    /\ HasUrl(Doc, DeletedUrl)
    /\ Basename(DeletedUrl) \notin uploads

====
